---- MODULE Spec2Model ----
(***************************************************************************)
(* Model of the notification dispatcher of index.js: three POST routes     *)
(* that validate a request body, render a message and hand it to the       *)
(* e-mail provider through sendEmail.                                      *)
(*                                                                         *)
(* Text is modelled as a sequence of fragments: every fixed piece of a     *)
(* template literal is one fragment, every interpolated request field is   *)
(* one fragment, and the free-text note is a sequence of characters.       *)
(* A missing field (undefined) and the empty string are both falsy in      *)
(* JavaScript and take the same branches everywhere; both are "" here      *)
(* (<<>> for the note).                                                    *)
(***************************************************************************)
EXTENDS Integers, Sequences, FiniteSets, TLC

\* ---------------------------------------------------------------- bounds
\* Number of times the client posts the request (handled interleaved).
NumReqs == 2
\* Longest note, in characters.
MaxNoteLen == 3

Reqs == 1..NumReqs

\* ------------------------------------------------------------ input sets
RESERVATION == "/email/reservation-created"
WAITLIST == "/email/waitlist-created"
STATUS == "/email/status-updated"
Endpoints == {RESERVATION, WAITLIST, STATUS}

ParentEmails == {"", "parent@example.org"}
ParentNames == {"", "Ann"}
ChildNames == {"", "Sam"}
ItemNames == {"", "Toy Truck"}
PreferredDays == {"", "Monday"}
Statuses == {"", "On Loan", "Ready for Pickup", "Returned", "Lost"}
AdminEmails == {"", "admin@example.org"}
NoteChars == {"a", " ", "\n"}
Notes == UNION {[1..n -> NoteChars] : n \in 0..MaxNoteLen}

\* The fields each route destructures from req.body; the others are ignored
\* by the route and left empty.
Fields(endpoint) ==
  IF endpoint = RESERVATION
    THEN {"parentEmail", "parentName", "childName", "itemName", "preferredDay", "note"}
  ELSE IF endpoint = WAITLIST
    THEN {"parentEmail", "parentName", "childName", "itemName"}
  ELSE {"parentEmail", "parentName", "childName", "itemName", "newStatus", "preferredDay"}

Bodies(endpoint) ==
  {b \in [parentEmail : ParentEmails, parentName : ParentNames,
          childName : ChildNames, itemName : ItemNames,
          preferredDay : PreferredDays, newStatus : Statuses, note : Notes] :
     /\ "preferredDay" \notin Fields(endpoint) => b.preferredDay = ""
     /\ "newStatus" \notin Fields(endpoint) => b.newStatus = ""
     /\ "note" \notin Fields(endpoint) => b.note = <<>>}

\* Results of resend.emails.send: {data}, {error}, or a rejected promise.
Outcomes == {"data", "error", "rejected"}

\* ----------------------------------------------------------------- state
VARIABLES
  env,    \* process.env: ADMIN_EMAIL
  req,    \* req[r]: endpoint and body of request r
  pc,     \* pc[r]: where the handler of r stands
  calls,  \* calls[r]: the resend.emails.send calls made by the handler of r
  resp    \* resp[r]: the responses written to res by the handler of r

vars == <<env, req, pc, calls, resp>>

\* ------------------------------------------------------- pure operators
\* A field is truthy when it is a non-empty string.
Truthy(v) == v # ""

\* The same test for text kept as a sequence of characters (the note).
TruthyText(s) == Len(s) > 0

OrElse(v, default) == IF Truthy(v) THEN v ELSE default

Range(s) == {s[i] : i \in 1..Len(s)}

BETHESDA_LOGO == "https://res.cloudinary.com/towson008/image/upload/v1765341466/tp1aouaicde3zpykntkn.png"

PICKUP_INFO_HTML == "<div>Pickup Location: 3310 Schmon Parkway ... Pickup Hours: Monday - Friday</div>"

BR == "<br />"

renderBrandedEmail_AlwaysPickup(title, content, showPickupInfo) ==
  <<"<div><div><!-- Header --><div><img src=\"", BETHESDA_LOGO, "\" /></div>",
    "<!-- Body --><div><h2>", title, "</h2>">>
  \o content
  \o <<PICKUP_INFO_HTML>>
  \o <<"</div><!-- Footer --><div>Bethesda Toy Lending Library</div></div></div>">>

renderBrandedEmail(title, content, showPickupInfo) ==
  <<"<div><div><!-- Header --><div><img src=\"", BETHESDA_LOGO, "\" /></div>",
    "<!-- Body --><div><h2>", title, "</h2>">>
  \o content
  \o (IF showPickupInfo THEN <<PICKUP_INFO_HTML>> ELSE <<>>)
  \o <<"</div><!-- Footer --><div>Bethesda Toy Lending Library</div></div></div>">>

\* String.prototype.replace(/\n/g, "<br />")
replaceNewlines(s) == [i \in 1..Len(s) |-> IF s[i] = "\n" THEN BR ELSE s[i]]

IsWhiteSpace(c) == c \in {" ", "\t", "\n", "\r"}

RECURSIVE trimStart(_)
trimStart(s) ==
  IF s # <<>> /\ IsWhiteSpace(Head(s)) THEN trimStart(Tail(s)) ELSE s

RECURSIVE trimEnd(_)
trimEnd(s) ==
  IF s # <<>> /\ IsWhiteSpace(s[Len(s)]) THEN trimEnd(SubSeq(s, 1, Len(s) - 1)) ELSE s

\* String.prototype.trim()
trim(s) == trimEnd(trimStart(s))

NOTE_OPEN == "<p><strong>Your note:</strong><br />"
NOTE_CLOSE == "</p>"

noteHtml(note) ==
  IF TruthyText(note)
    THEN <<NOTE_OPEN>> \o trim(replaceNewlines(note)) \o <<NOTE_CLOSE>>
    ELSE <<>>

pickupLine(preferredDay) ==
  IF Truthy(preferredDay)
    THEN <<"Preferred pick-up day: <strong>", preferredDay, "</strong>.">>
    ELSE <<"We will contact you with pick-up details soon.">>

forChild(childName) == IF Truthy(childName) THEN <<"for ", childName>> ELSE <<>>

reservationMessage(b) ==
  [to |-> b.parentEmail,
   subject |-> <<"Reservation received for \"", b.itemName, "\"">>,
   html |-> renderBrandedEmail("Reservation Received",
      <<"<p>Hi ", OrElse(b.parentName, "there"), ",</p>",
        "<p>We have received your reservation for <strong>", b.itemName, "</strong>">>
      \o forChild(b.childName)
      \o <<".</p>", "<p>">> \o pickupLine(b.preferredDay) \o <<"</p>">>
      \o noteHtml(b.note)
      \o <<"<p>We will send another email when this toy is <strong>ready for pickup</strong>.</p>">>,
      FALSE)]

waitlistMessage(b) ==
  [to |-> b.parentEmail,
   subject |-> <<"Waitlist request for \"", b.itemName, "\" received">>,
   html |-> renderBrandedEmail("Waitlist Confirmation",
      <<"<p>Hi ", OrElse(b.parentName, "there"), ",</p>",
        "<p>You have been added to the waitlist for <strong>", b.itemName, "</strong>">>
      \o forChild(b.childName)
      \o <<".</p>",
           "<p>We will contact you as soon as this toy becomes available.</p>">>,
      FALSE)]

adminMessage_ToParent(endpoint, b) ==
  [to |-> b.parentEmail,
   subject |-> <<"New reservation: \"", b.itemName, "\"">>,
   html |-> <<"<h3>New Reservation</h3>">>]

adminMessage(endpoint, b) ==
  IF endpoint = RESERVATION
    THEN [to |-> env.ADMIN_EMAIL,
          subject |-> <<"New reservation: \"", b.itemName, "\"">>,
          html |-> <<"<h3>New Reservation</h3>",
                     "<p><strong>Parent:</strong> ", OrElse(b.parentName, "N/A"),
                     " (", b.parentEmail, ")</p>",
                     "<p><strong>Child:</strong> ", OrElse(b.childName, "N/A"), "</p>",
                     "<p><strong>Item:</strong> ", b.itemName, "</p>",
                     "<p><strong>Preferred pickup:</strong> ",
                     OrElse(b.preferredDay, "N/A"), "</p>">>]
    ELSE [to |-> env.ADMIN_EMAIL,
          subject |-> <<"New waitlist request: \"", b.itemName, "\"">>,
          html |-> <<"<h3>New Waitlist Entry</h3>",
                     "<p><strong>Parent:</strong> ", OrElse(b.parentName, "N/A"),
                     " (", b.parentEmail, ")</p>",
                     "<p><strong>Child:</strong> ", OrElse(b.childName, "N/A"), "</p>",
                     "<p><strong>Item:</strong> ", b.itemName, "</p>">>]

genericSubject(b) == <<"Update for \"", b.itemName, "\"">>

thankYouHtml(b) ==
  renderBrandedEmail("Thank You",
    <<"<p>Hi ", OrElse(b.parentName, "there"), ",</p>",
      "<p>We have marked <strong>", b.itemName, "</strong> as <strong>Returned</strong>.</p>",
      "<p>Thank you for using the Toy Lending Library!</p>">>,
    FALSE)

readyHtml(b) ==
  renderBrandedEmail("Your Toy is Ready for Pickup",
    <<"<p>Hi ", OrElse(b.parentName, "there"), ",</p>",
      "<p>Great news! <strong>", b.itemName, "</strong>">>
    \o forChild(b.childName)
    \o <<" is now <strong>ready for pickup</strong>.</p>">>
    \o (IF Truthy(b.preferredDay)
          THEN <<"<p>You requested pickup on <strong>", b.preferredDay, "</strong>.</p>">>
          ELSE <<>>)
    \o <<"<h4>Note: You will be required to show this confirmationemail with you when you come.</h4>">>,
    TRUE)

statusMessage_ThanksByDefault(b) ==
  IF b.newStatus = "Ready for Pickup"
    THEN [to |-> b.parentEmail,
          subject |-> <<"[party popper] \"", b.itemName, "\" is ready for pickup">>,
          html |-> readyHtml(b)]
    ELSE [to |-> b.parentEmail, subject |-> genericSubject(b), html |-> thankYouHtml(b)]

statusMessage(b) ==
  IF b.newStatus = "Ready for Pickup"
    THEN [to |-> b.parentEmail,
          subject |-> <<"[party popper] \"", b.itemName, "\" is ready for pickup">>,
          html |-> readyHtml(b)]
  ELSE IF b.newStatus = "Returned"
    THEN [to |-> b.parentEmail, subject |-> genericSubject(b), html |-> thankYouHtml(b)]
  ELSE [to |-> b.parentEmail, subject |-> genericSubject(b), html |-> <<>>]

\* if (!parentEmail || !itemName)
missingRequired(b) == ~Truthy(b.parentEmail) \/ ~Truthy(b.itemName)

missingRequiredStatus_NoStatusCheck(b) == ~Truthy(b.parentEmail) \/ ~Truthy(b.itemName)

\* if (!parentEmail || !itemName || !newStatus)
missingRequiredStatus(b) ==
  ~Truthy(b.parentEmail) \/ ~Truthy(b.itemName) \/ ~Truthy(b.newStatus)

skipOnLoan_Never(b) == FALSE

\* if (newStatus === "On Loan")
skipOnLoan(b) == b.newStatus = "On Loan"

sendEmailThrows_OnlyOnReject(outcome) == outcome = "rejected"

\* sendEmail throws when the provider returns an error; a rejected promise
\* propagates through the await.
sendEmailThrows(outcome) == outcome \in {"error", "rejected"}

\* ------------------------------------------------------ handler fragments
\* res.status(status).json({key: value}); the handler returns or ends.
Respond(r, status, key, value) ==
  /\ resp' = [resp EXCEPT ![r] = Append(@, [status |-> status, key |-> key, value |-> value])]
  /\ pc' = [pc EXCEPT ![r] = "done"]

Pending(msg) ==
  [to |-> msg.to, subject |-> msg.subject, html |-> msg.html, outcome |-> "pending"]

\* await sendEmail(msg): resend.emails.send is called and the handler is
\* suspended at `next` until the provider answers.
sendEmail(r, msg, next) ==
  /\ calls' = [calls EXCEPT ![r] = Append(@, Pending(msg))]
  /\ pc' = [pc EXCEPT ![r] = next]

\* The provider's answer to the outstanding (last) call.
Settle(cs, outcome) == [cs EXCEPT ![Len(cs)].outcome = outcome]

\* ----------------------------------------------------------------- Init
\* The server is up with its environment read; the client posts one request,
\* NumReqs times over (a repeated event), and no handler has run yet.
Init ==
  \E endpoint \in Endpoints, a \in AdminEmails :
    \E b \in Bodies(endpoint) :
      /\ env = [ADMIN_EMAIL |-> a]
      /\ req = [r \in Reqs |-> [endpoint |-> endpoint, body |-> b]]
      /\ pc = [r \in Reqs |-> "posted"]
      /\ calls = [r \in Reqs |-> <<>>]
      /\ resp = [r \in Reqs |-> <<>>]

\* -------------------------------------------------------------- actions
ReservationCreated_Dedup(r) ==
  /\ pc[r] = "posted"
  /\ req[r].endpoint = RESERVATION
  /\ IF missingRequired(req[r].body)
       THEN Respond(r, 400, "error", "Missing required fields") /\ UNCHANGED calls
     ELSE IF \E r2 \in Reqs \ {r} : \E i \in 1..Len(calls[r2]) :
               /\ calls[r2][i].to = reservationMessage(req[r].body).to
               /\ calls[r2][i].subject = reservationMessage(req[r].body).subject
               /\ calls[r2][i].html = reservationMessage(req[r].body).html
       THEN Respond(r, 200, "ok", "true") /\ UNCHANGED calls
     ELSE sendEmail(r, reservationMessage(req[r].body), "awaitRecipient")
          /\ UNCHANGED resp
  /\ UNCHANGED <<env, req>>

\* POST /email/reservation-created, up to the first await.
ReservationCreated(r) ==
  /\ pc[r] = "posted"
  /\ req[r].endpoint = RESERVATION
  /\ IF missingRequired(req[r].body)
       THEN Respond(r, 400, "error", "Missing required fields") /\ UNCHANGED calls
       ELSE sendEmail(r, reservationMessage(req[r].body), "awaitRecipient")
            /\ UNCHANGED resp
  /\ UNCHANGED <<env, req>>

WaitlistCreated_NoReturn(r) ==
  /\ pc[r] = "posted"
  /\ req[r].endpoint = WAITLIST
  /\ IF missingRequired(req[r].body)
       THEN /\ resp' = [resp EXCEPT ![r] =
                 Append(@, [status |-> 400, key |-> "error", value |-> "Missing required fields"])]
            /\ sendEmail(r, waitlistMessage(req[r].body), "awaitRecipient")
       ELSE sendEmail(r, waitlistMessage(req[r].body), "awaitRecipient")
            /\ UNCHANGED resp
  /\ UNCHANGED <<env, req>>

\* POST /email/waitlist-created, up to the first await.
WaitlistCreated(r) ==
  /\ pc[r] = "posted"
  /\ req[r].endpoint = WAITLIST
  /\ IF missingRequired(req[r].body)
       THEN Respond(r, 400, "error", "Missing required fields") /\ UNCHANGED calls
       ELSE sendEmail(r, waitlistMessage(req[r].body), "awaitRecipient")
            /\ UNCHANGED resp
  /\ UNCHANGED <<env, req>>

\* POST /email/status-updated, up to its await.
StatusUpdated(r) ==
  /\ pc[r] = "posted"
  /\ req[r].endpoint = STATUS
  /\ IF missingRequiredStatus(req[r].body)
       THEN Respond(r, 400, "error", "Missing required fields") /\ UNCHANGED calls
     ELSE IF skipOnLoan(req[r].body)
       THEN Respond(r, 200, "skipped", "true") /\ UNCHANGED calls
     ELSE sendEmail(r, statusMessage(req[r].body), "awaitRecipient")
          /\ UNCHANGED resp
  /\ UNCHANGED <<env, req>>

\* reservation-created / waitlist-created resume after the recipient send:
\* a failure lands in catch, otherwise the admin copy is sent if
\* process.env.ADMIN_EMAIL is set, otherwise res.json({ok: true}).
RecipientSendReturns(r) ==
  /\ pc[r] = "awaitRecipient"
  /\ req[r].endpoint \in {RESERVATION, WAITLIST}
  /\ \E outcome \in Outcomes :
       LET cs == Settle(calls[r], outcome) IN
         IF sendEmailThrows(outcome)
           THEN /\ calls' = [calls EXCEPT ![r] = cs]
                /\ Respond(r, 500, "error", "Failed to send email")
         ELSE IF Truthy(env.ADMIN_EMAIL)
           THEN /\ calls' = [calls EXCEPT ![r] =
                     Append(cs, Pending(adminMessage(req[r].endpoint, req[r].body)))]
                /\ pc' = [pc EXCEPT ![r] = "awaitAdmin"]
                /\ UNCHANGED resp
         ELSE /\ calls' = [calls EXCEPT ![r] = cs]
              /\ Respond(r, 200, "ok", "true")
  /\ UNCHANGED <<env, req>>

AdminSendReturns_BestEffort(r) ==
  /\ pc[r] = "awaitAdmin"
  /\ \E outcome \in Outcomes :
       /\ calls' = [calls EXCEPT ![r] = Settle(@, outcome)]
       /\ Respond(r, 200, "ok", "true")
  /\ UNCHANGED <<env, req>>

\* reservation-created / waitlist-created resume after the admin send.
AdminSendReturns(r) ==
  /\ pc[r] = "awaitAdmin"
  /\ \E outcome \in Outcomes :
       /\ calls' = [calls EXCEPT ![r] = Settle(@, outcome)]
       /\ IF sendEmailThrows(outcome)
            THEN Respond(r, 500, "error", "Failed to send email")
            ELSE Respond(r, 200, "ok", "true")
  /\ UNCHANGED <<env, req>>

\* status-updated resumes after its send.
StatusSendReturns(r) ==
  /\ pc[r] = "awaitRecipient"
  /\ req[r].endpoint = STATUS
  /\ \E outcome \in Outcomes :
       /\ calls' = [calls EXCEPT ![r] = Settle(@, outcome)]
       /\ IF sendEmailThrows(outcome)
            THEN Respond(r, 500, "error", "Failed to send email")
            ELSE Respond(r, 200, "ok", "true")
  /\ UNCHANGED <<env, req>>

Next ==
  \E r \in Reqs :
    \/ ReservationCreated(r)
    \/ WaitlistCreated(r)
    \/ StatusUpdated(r)
    \/ RecipientSendReturns(r)
    \/ AdminSendReturns(r)
    \/ StatusSendReturns(r)

Spec == Init /\ [][Next]_vars

\* ------------------------------------------------------------ properties
Endpoint(r) == req[r].endpoint
Body(r) == req[r].body
Done(r) == pc[r] = "done"

BadRequest == [status |-> 400, key |-> "error", value |-> "Missing required fields"]
Skipped == [status |-> 200, key |-> "skipped", value |-> "true"]
Ok == [status |-> 200, key |-> "ok", value |-> "true"]
Failed == [status |-> 500, key |-> "error", value |-> "Failed to send email"]

RequiredFields(endpoint) ==
  IF endpoint = STATUS THEN {"parentEmail", "itemName", "newStatus"}
                       ELSE {"parentEmail", "itemName"}

OmitsRequired(r) == \E f \in RequiredFields(Endpoint(r)) : Body(r)[f] = ""

AdminConfigured == env.ADMIN_EMAIL # ""

HasAdminCopy(r) == Endpoint(r) \in {RESERVATION, WAITLIST} /\ AdminConfigured

\* The addresses a request owes a delivery to, in order.
DueRecipients(r) ==
  IF HasAdminCopy(r) THEN <<Body(r).parentEmail, env.ADMIN_EMAIL>>
                     ELSE <<Body(r).parentEmail>>

Recipients(r) == [i \in 1..Len(calls[r]) |-> calls[r][i].to]

AllDelivered(r) == \A i \in 1..Len(calls[r]) : calls[r][i].outcome = "data"

CallFailed(c) == c.outcome \in {"error", "rejected"}

HasPickupInfo(c) == PICKUP_INFO_HTML \in Range(c.html)

ContainsSeq(h, s) ==
  \E i \in 0..(Len(h) - Len(s)) : SubSeq(h, i + 1, i + Len(s)) = s

\* C1: on each of the three endpoints a request that omits a required field
\* (parentEmail or itemName; for status-updated also newStatus) makes no
\* delivery call and, once handled, has been answered with exactly
\* 400 {error: "Missing required fields"}.
C1_MissingFieldRejected ==
  \A r \in Reqs :
    OmitsRequired(r) =>
      /\ calls[r] = <<>>
      /\ pc[r] \in {"posted", "done"}
      /\ Done(r) => resp[r] = <<BadRequest>>

C1_Witness ==
  \E r \in Reqs :
    /\ Endpoint(r) = STATUS
    /\ Body(r).parentEmail # "" /\ Body(r).itemName # "" /\ Body(r).newStatus = ""
    /\ Done(r) /\ resp[r] = <<BadRequest>>

\* C2 (as claimed): a status-updated request with newStatus = "On Loan" is
\* answered 200 {skipped: true} and makes no delivery call, whatever the other
\* fields are and whether or not they are present.
C2_OnLoanAlwaysSkipped ==
  \A r \in Reqs :
    (Endpoint(r) = STATUS /\ Body(r).newStatus = "On Loan") =>
      /\ calls[r] = <<>>
      /\ Done(r) => resp[r] = <<Skipped>>

\* C2 (amended): a status-updated request with newStatus = "On Loan" never
\* makes a delivery call; it is answered 200 {skipped: true} when parentEmail
\* and itemName are present, whatever the optional fields are, and
\* 400 {error: "Missing required fields"} when parentEmail or itemName is
\* missing.
C2_OnLoanSkippedWhenValid ==
  \A r \in Reqs :
    (Endpoint(r) = STATUS /\ Body(r).newStatus = "On Loan") =>
      /\ calls[r] = <<>>
      /\ pc[r] \in {"posted", "done"}
      /\ Done(r) =>
           resp[r] = IF Body(r).parentEmail # "" /\ Body(r).itemName # ""
                       THEN <<Skipped>> ELSE <<BadRequest>>

C2_Witness ==
  \E r \in Reqs :
    /\ Endpoint(r) = STATUS /\ Body(r).newStatus = "On Loan"
    /\ Body(r).parentName = "" /\ Body(r).preferredDay # ""
    /\ Done(r) /\ resp[r] = <<Skipped>> /\ calls[r] = <<>>

\* C3: a valid reservation-created or waitlist-created request whose delivery
\* calls all succeed has made exactly two calls when an administrator address
\* is configured, the first to parentEmail and the second to the
\* administrator, and exactly one call, to parentEmail, when none is; and a
\* call is made only after every earlier call of the request has completed
\* successfully.
C3_RecipientThenAdmin ==
  \A r \in Reqs :
    (Endpoint(r) \in {RESERVATION, WAITLIST} /\ ~OmitsRequired(r)) =>
      /\ \A i \in 1..(Len(calls[r]) - 1) : calls[r][i].outcome = "data"
      /\ (Done(r) /\ AllDelivered(r)) =>
           IF AdminConfigured
             THEN Recipients(r) = <<Body(r).parentEmail, env.ADMIN_EMAIL>>
             ELSE Recipients(r) = <<Body(r).parentEmail>>

C3_Witness ==
  \E r \in Reqs :
    /\ Endpoint(r) = WAITLIST /\ AdminConfigured
    /\ Done(r) /\ AllDelivered(r) /\ Len(calls[r]) = 2

\* C4: on all three endpoints a failed delivery call is the last call of its
\* request (it is not retried and nothing is sent after it) and the request
\* is answered with exactly 500 {error: "Failed to send email"}.
C4_FailureIsFatal ==
  \A r \in Reqs :
    \A i \in 1..Len(calls[r]) :
      CallFailed(calls[r][i]) =>
        /\ i = Len(calls[r])
        /\ Done(r)
        /\ resp[r] = <<Failed>>

C4_Witness ==
  \E r \in Reqs :
    /\ Endpoint(r) = STATUS
    /\ Len(calls[r]) = 1 /\ calls[r][1].outcome = "error"
    /\ resp[r] = <<Failed>>

\* C5: on reservation-created and waitlist-created, when the admin delivery
\* (the second call) has failed, the recipient delivery before it has been
\* made to parentEmail and stays delivered, nothing further is sent, and the
\* only response is 500 {error: "Failed to send email"}.
C5_AdminFailureAfterDelivery ==
  \A r \in Reqs :
    (Len(calls[r]) >= 2 /\ CallFailed(calls[r][2])) =>
      /\ Endpoint(r) \in {RESERVATION, WAITLIST}
      /\ AdminConfigured
      /\ Len(calls[r]) = 2
      /\ calls[r][1].to = Body(r).parentEmail
      /\ calls[r][1].outcome = "data"
      /\ calls[r][2].to = env.ADMIN_EMAIL
      /\ Done(r)
      /\ resp[r] = <<Failed>>

C5_Witness ==
  \E r \in Reqs :
    /\ Endpoint(r) = RESERVATION
    /\ Len(calls[r]) = 2
    /\ calls[r][1].outcome = "data" /\ CallFailed(calls[r][2])
    /\ resp[r] = <<Failed>>

\* C6: a status-updated request with all required fields and a newStatus
\* other than "On Loan", "Ready for Pickup" and "Returned" makes, once
\* handled, exactly one delivery call, to parentEmail, with the generic
\* subject and the empty string as html; it is answered {ok: true} when that
\* call succeeds and is never skipped or rejected with 400.
C6_UnknownStatusSendsEmpty ==
  \A r \in Reqs :
    (/\ Endpoint(r) = STATUS /\ ~OmitsRequired(r)
     /\ Body(r).newStatus \notin {"On Loan", "Ready for Pickup", "Returned"}
     /\ pc[r] # "posted") =>
      /\ Len(calls[r]) = 1
      /\ calls[r][1].to = Body(r).parentEmail
      /\ calls[r][1].subject = <<"Update for \"", Body(r).itemName, "\"">>
      /\ calls[r][1].html = <<>>
      /\ (Done(r) /\ calls[r][1].outcome = "data") => resp[r] = <<Ok>>
      /\ \A k \in 1..Len(resp[r]) : resp[r][k] \in {Ok, Failed}

C6_Witness ==
  \E r \in Reqs :
    /\ Endpoint(r) = STATUS /\ Body(r).newStatus = "Lost"
    /\ Len(calls[r]) = 1 /\ calls[r][1].html = <<>> /\ calls[r][1].outcome = "data"
    /\ resp[r] = <<Ok>>

\* C7: an email carries the pickup-location/hours block exactly when it is
\* the message of a status-updated request with newStatus "Ready for
\* Pickup"; that message also carries preferredDay when one is given, and
\* the "Returned" message is titled "Thank You" (and has no block).
C7_PickupInfoOnlyWhenReady ==
  \A r \in Reqs :
    \A i \in 1..Len(calls[r]) :
      /\ HasPickupInfo(calls[r][i]) <=>
           (Endpoint(r) = STATUS /\ Body(r).newStatus = "Ready for Pickup")
      /\ (/\ Endpoint(r) = STATUS /\ Body(r).newStatus = "Ready for Pickup"
          /\ Body(r).preferredDay # "") =>
           Body(r).preferredDay \in Range(calls[r][i].html)
      /\ (Endpoint(r) = STATUS /\ Body(r).newStatus = "Returned") =>
           "Thank You" \in Range(calls[r][i].html)

C7_Witness ==
  \E r \in Reqs :
    /\ Endpoint(r) = STATUS /\ Body(r).newStatus = "Ready for Pickup"
    /\ Body(r).preferredDay = "Monday"
    /\ Len(calls[r]) = 1 /\ HasPickupInfo(calls[r][1])
    /\ "Monday" \in Range(calls[r][1].html)

\* C8: no deduplication: of two identical requests that were both answered
\* {ok: true}, each has made the full set of delivery calls, so together they
\* made twice the calls one request owes, and their calls are the same.
C8_NoDeduplication ==
  \A r1 \in Reqs : \A r2 \in Reqs \ {r1} :
    (req[r1] = req[r2] /\ resp[r1] = <<Ok>> /\ resp[r2] = <<Ok>>) =>
      /\ Len(calls[r1]) + Len(calls[r2]) = 2 * Len(DueRecipients(r1))
      /\ calls[r1] = calls[r2]

C8_Witness ==
  \E r1 \in Reqs : \E r2 \in Reqs \ {r1} :
    /\ Endpoint(r1) = RESERVATION /\ AdminConfigured
    /\ req[r1] = req[r2] /\ resp[r1] = <<Ok>> /\ resp[r2] = <<Ok>>
    /\ Len(calls[r1]) + Len(calls[r2]) = 4

\* C9 (as claimed): in the reservation-created recipient message a non-empty
\* note is rendered as the note with leading and trailing whitespace removed
\* and every remaining newline replaced by <br />.
C9_NoteTrimmedThenBroken ==
  \A r \in Reqs :
    (/\ Endpoint(r) = RESERVATION /\ Body(r).note # <<>>
     /\ Len(calls[r]) >= 1) =>
      ContainsSeq(calls[r][1].html,
                  <<NOTE_OPEN>> \o replaceNewlines(trim(Body(r).note)) \o <<NOTE_CLOSE>>)

\* C10: a request never has more than one response and has exactly one once
\* its handler has finished; {ok: true} is given only when every delivery due
\* (the recipient's, then the administrator's where configured for
\* reservation-created / waitlist-created) has been made and has succeeded; a
\* status-updated request makes at most one call and none to the
\* administrator address.
C10_OneResponseAfterAllSends ==
  \A r \in Reqs :
    /\ Len(resp[r]) <= 1
    /\ Done(r) <=> Len(resp[r]) = 1
    /\ (Len(resp[r]) >= 1 /\ resp[r][1] = Ok) =>
         (Recipients(r) = DueRecipients(r) /\ AllDelivered(r))
    /\ Endpoint(r) = STATUS =>
         /\ Len(calls[r]) <= 1
         /\ \A i \in 1..Len(calls[r]) : calls[r][i].to # env.ADMIN_EMAIL

C10_Witness ==
  \E r \in Reqs :
    /\ Endpoint(r) = RESERVATION /\ AdminConfigured
    /\ Done(r) /\ resp[r] = <<Ok>>
    /\ Recipients(r) = DueRecipients(r) /\ AllDelivered(r)

====
